---- MODULE Spec2Model ----
(***************************************************************************)
(* A state-machine model of src/index.js: the connection supervisor        *)
(* (connectToOpenSea, reconnect, the heartbeat / rotation timers), the     *)
(* subscription registry (userSubscriptions, eventFilters,                 *)
(* activeCollections, subscriptionRefs, load / save, the join chain of     *)
(* resubscribeToCollections, the subscribe / unsubscribe commands and the  *)
(* menu, modal and button interactions) and the event router               *)
(* (handleOpenSeaEvent).                                                   *)
(*                                                                         *)
(* One action is one macrotask of the Node.js event loop: a timer          *)
(* callback, a websocket event or a Discord handler, run to its first      *)
(* await (promise continuations run as microtasks of the macrotask that    *)
(* settles the promise, so they belong to that action).                    *)
(*                                                                         *)
(* Abstractions:                                                            *)
(*  - activeCollections is a JS Set; its insertion order is not kept, and  *)
(*    Array.from(activeCollections) enumerates it in one fixed order.      *)
(*  - the iteration order of the Maps is not kept (no output depends on    *)
(*    it but the order of notifications).                                  *)
(*  - a throwing ws.send is an input of the handlers (fails); the         *)
(*    specifications choose the sends they admit (Sends).                  *)
(*  - pendingSubscriptions is written and never read; it is left out.      *)
(***************************************************************************)
EXTENDS Integers, Sequences, FiniteSets, Bags, TLC

(***************************************************************************)
(* Program constants                                                       *)
(***************************************************************************)
RECONNECT_DELAY == 5000
MAX_RECONNECT_ATTEMPTS == 5
MAX_BACKOFF == 30000
MAX_SUBSCRIPTIONS == 3

VALID_EVENTS ==
    {"item_listed", "item_sold", "item_transferred", "item_received_offer",
     "item_received_bid", "item_metadata_updated", "item_cancelled"}

(***************************************************************************)
(* Bounds of the model                                                     *)
(***************************************************************************)
MaxRefs == 2         \* refs a behaviour draws from currentRef
MaxChains == 2       \* join chains (500 ms timers) alive at once
MaxWaiting == 2      \* subscribe commands awaiting their acknowledgement
SupervisorRefs == 4  \* refs drawn in the behaviours of the supervisor
PendingRefs == 12    \* refs drawn in the behaviours of one connection
JoinCap == 2         \* the per-connection join counter saturates here
MaxAttempts == 7     \* connectionAttempts is not incremented beyond this

(***************************************************************************)
(* Input universes.  A slug is a sequence of characters so that the slug   *)
(* grammar is computed, not assumed.                                       *)
(***************************************************************************)
Users == {"u1", "u2"}

SlugChars == {"a", "b", "c", "d", "0", "-"}
SA == <<"a">>
SB == <<"b">>
SC == <<"c">>
SD == <<"d">>
BadSlug == <<"A">>
ValidSlugs == {SA, SB, SC, SD}
Slugs == ValidSlugs \cup {BadSlug}

\* a slug check that lets everything through
isValidCollectionSlugAny(slug) == TRUE

\* /^[a-z0-9-]+$/ on a non-empty string
isValidCollectionSlug(slug) ==
    /\ Len(slug) > 0
    /\ \A i \in 1..Len(slug) : slug[i] \in SlugChars

\* the event sets a caller can hand over (subscribe arguments, select menu)
FilterInputs == {VALID_EVENTS, {"item_sold"}, {"item_listed", "item_sold"}}

(***************************************************************************)
(* Maps as functions with a finite domain                                  *)
(***************************************************************************)
EmptyMap == [x \in {} |-> x]
Has(m, k) == k \in DOMAIN m
Get(m, k, dflt) == IF k \in DOMAIN m THEN m[k] ELSE dflt
Put(m, k, v) == [x \in (DOMAIN m) \cup {k} |-> IF x = k THEN v ELSE m[x]]
Del(m, k) == [x \in (DOMAIN m) \ {k} |-> m[x]]

Range(s) == {s[i] : i \in 1..Len(s)}
IncludesNever(s, x) == FALSE
Includes(s, x) == \E i \in 1..Len(s) : s[i] = x
Without(s, x) == SelectSeq(s, LAMBDA y : y # x)
NoDuplicates(s) == \A i, j \in 1..Len(s) : s[i] = s[j] => i = j

\* Array.from(aSet): the members of the set, here always in this order
CollectionOrder == <<SA, SB, SC, SD>>
Enumerate(order, S) == SelectSeq(order, LAMBDA x : x \in S)

VARIABLES
    pc,                 \* "start" before client.on('ready') ran, then "running"
    userSubscriptions,  \* Map userId -> array of slugs
    eventFilters,       \* Map userId -> Set of event kinds
    activeCollections,  \* Set of slugs
    subscriptionRefs,   \* Map slug -> ref
    currentRef,         \* last ref handed out
    file,               \* subscriptions.json
    ws,                 \* the current WebSocket object's state
    isWsConnected,
    connectionAttempts,
    reconnectTimeout,   \* 0: no backoff timer armed, else its delay in ms
    connectionTimeout,  \* the handshake timer of the current socket is armed
    heartbeatInterval,  \* [live: setInterval heartbeat timers alive, current: the
                        \*  one the variable refers to is alive]
    initialHeartbeat,   \* the 1 s setTimeout of ws.on('open') is armed
    subscriptionDelay,  \* the 2 s setTimeout of ws.on('open') is armed
    chains,             \* bag of join chains: the collections still to join
    waiting,            \* subscribe commands suspended at "await subscriptionPromise"
    handlers,           \* refs whose subscribe handler is a 'message' listener of
                        \*  the current socket
    out,                \* frames this step put on the open socket
    reply,              \* what this step answered to the caller
    notified,           \* users this step called sendNotification for
    received,           \* the data this step's 'message' listeners were given
    delays,             \* backoff delays scheduled since the last 'open'
    joins,              \* join frames per collection on the current socket
    reconciled          \* the 2 s timer of the current socket has run

regVars == <<userSubscriptions, eventFilters, activeCollections,
             subscriptionRefs, currentRef, file>>
connVars == <<ws, isWsConnected, connectionAttempts, reconnectTimeout,
              connectionTimeout, heartbeatInterval, initialHeartbeat,
              subscriptionDelay, delays, reconciled>>
vars == <<pc, userSubscriptions, eventFilters, activeCollections,
          subscriptionRefs, currentRef, file, ws, isWsConnected,
          connectionAttempts, reconnectTimeout, connectionTimeout,
          heartbeatInterval, initialHeartbeat, subscriptionDelay, chains,
          waiting, handlers, out, reply, notified, received, delays, joins, reconciled>>


(***************************************************************************)
(* Frames and the socket                                                   *)
(***************************************************************************)
NoSlug == <<>>
NoData == [text |-> "", json |-> FALSE, none |-> TRUE]
JoinFrame(slug, ref) == [event |-> "phx_join", slug |-> slug, ref |-> ref]
LeaveFrame(slug, ref) == [event |-> "phx_leave", slug |-> slug, ref |-> ref]
HeartbeatFrame == [event |-> "heartbeat", slug |-> NoSlug, ref |-> 0]

\* ws.readyState === WebSocket.OPEN
wsIsOpen == ws = "open"

\* a transport that puts the frame on the wire whatever the socket's state
SendOutcomeAnyState(fails) == IF fails THEN "threw" ELSE "sent"

\* ws.send(frame): on an open socket the frame goes out unless send throws
\* (input fails); on a socket still connecting send throws; on a closing or
\* closed socket it throws or drops the frame without throwing
SendOutcome(fails) ==
    IF ws = "open" THEN (IF fails THEN "threw" ELSE "sent")
    ELSE IF ws \in {"null", "connecting"} THEN "threw"
    ELSE IF fails THEN "threw" ELSE "dropped"

(***************************************************************************)
(* The registry as one record, so that the handlers' calls compose         *)
(***************************************************************************)
Registry ==
    [userSubscriptions |-> userSubscriptions,
     eventFilters |-> eventFilters,
     activeCollections |-> activeCollections,
     subscriptionRefs |-> subscriptionRefs,
     currentRef |-> currentRef,
     file |-> file,
     chains |-> chains,
     waiting |-> waiting,
     handlers |-> handlers,
     joins |-> joins,
     out |-> <<>>]

Commit(r) ==
    /\ userSubscriptions' = r.userSubscriptions
    /\ eventFilters' = r.eventFilters
    /\ activeCollections' = r.activeCollections
    /\ subscriptionRefs' = r.subscriptionRefs
    /\ currentRef' = r.currentRef
    /\ file' = r.file
    /\ chains' = r.chains
    /\ waiting' = r.waiting
    /\ handlers' = r.handlers
    /\ joins' = r.joins
    /\ out' = r.out

Min(a, b) == IF a <= b THEN a ELSE b

\* the frame is on the wire only if send neither threw nor dropped it
Emit(r, frame, fails) ==
    IF SendOutcome(fails) = "sent"
    THEN [r EXCEPT !.out = Append(@, frame),
                   !.joins = IF frame.event = "phx_join"
                             THEN [@ EXCEPT ![frame.slug] = Min(@ + 1, JoinCap)]
                             ELSE @]
    ELSE r

\* one run of subscribeNext for the collection at collections[index]
SubscribeNext(r, collectionSlug, fails) ==
    LET ref == r.currentRef + 1
        r1 == [r EXCEPT !.currentRef = ref,
                        !.subscriptionRefs = Put(@, collectionSlug, ref)]
    IN Emit(r1, JoinFrame(collectionSlug, ref), fails)

\* a reconciliation that joins nothing
resubscribeNothing(r, fails) == r

\* a chain is the part of its collections array from index on; it holds one
\* armed 500 ms timer, also when nothing is left to join
resubscribeToCollections(r, fails) ==
    IF ~(isWsConnected /\ wsIsOpen) THEN r
    ELSE LET r1 == [r EXCEPT !.subscriptionRefs = EmptyMap]
             collections == Enumerate(CollectionOrder, r1.activeCollections)
         IN IF collections = <<>> THEN r1
            ELSE [SubscribeNext(r1, Head(collections), fails)
                    EXCEPT !.chains = @ (+) SetToBag({Tail(collections)})]

\* a waiting subscribe holds the array it read from userSubscriptions; when the
\* Map entry is replaced by another array object the waiting command keeps the
\* old one (alias = FALSE, subs = its content at that moment)
Detach(r, users) ==
    [r EXCEPT !.waiting =
        {IF p.alias /\ p.user \in users
         THEN [p EXCEPT !.alias = FALSE,
                        !.subs = Get(r.userSubscriptions, p.user, <<>>)]
         ELSE p : p \in @}]

\* a set of kinds taken over unfiltered
ValidFilterAny(kinds) == kinds

\* filters.filter(event => VALID_EVENTS.includes(event))
ValidFilter(kinds) == kinds \cap VALID_EVENTS

\* loadSubscriptions(): a file that is no JSON throws in JSON.parse and the
\* catch block clears the four collections
loadSubscriptions(r, fails) ==
    IF ~r.file.exists THEN r
    ELSE IF ~r.file.json
    THEN [Detach(r, Users) EXCEPT
            !.userSubscriptions = EmptyMap,
            !.eventFilters = EmptyMap,
            !.activeCollections = {},
            !.subscriptionRefs = EmptyMap]
    ELSE LET data == r.file
             validSubscriptions(u) ==
                 SelectSeq(data.subscriptions[u], isValidCollectionSlug)
             loadedUsers == {u \in DOMAIN data.subscriptions :
                                validSubscriptions(u) # <<>>}
             filterUsers == {u \in DOMAIN data.eventFilters :
                                ValidFilter(data.eventFilters[u]) # {}}
             r1 == [Detach(r, Users) EXCEPT
                      !.userSubscriptions =
                          [u \in loadedUsers |-> validSubscriptions(u)],
                      !.eventFilters =
                          [u \in filterUsers |-> ValidFilter(data.eventFilters[u])],
                      !.activeCollections =
                          UNION {Range(validSubscriptions(u)) : u \in loadedUsers},
                      !.subscriptionRefs = EmptyMap]
         IN IF wsIsOpen THEN resubscribeToCollections(r1, fails) ELSE r1

\* a save that writes the lists and leaves the filters out of the document
saveSubscriptionsListsOnly(r, fails) ==
    LET savedUsers == {u \in DOMAIN r.userSubscriptions :
                          r.userSubscriptions[u] # <<>>}
        r1 == [r EXCEPT
                 !.activeCollections =
                     @ \cup UNION {Range(r.userSubscriptions[u]) : u \in savedUsers},
                 !.file =
                     [exists |-> TRUE, json |-> TRUE,
                      subscriptions |-> [u \in savedUsers |-> r.userSubscriptions[u]],
                      eventFilters |-> EmptyMap]]
    IN IF wsIsOpen THEN resubscribeToCollections(r1, fails) ELSE r1

saveSubscriptions(r, fails) ==
    LET savedUsers == {u \in DOMAIN r.userSubscriptions :
                          r.userSubscriptions[u] # <<>>}
        filterUsers == {u \in DOMAIN r.eventFilters : r.eventFilters[u] # {}}
        r1 == [r EXCEPT
                 !.activeCollections =
                     @ \cup UNION {Range(r.userSubscriptions[u]) : u \in savedUsers},
                 !.file =
                     [exists |-> TRUE, json |-> TRUE,
                      subscriptions |-> [u \in savedUsers |-> r.userSubscriptions[u]],
                      eventFilters |-> [u \in filterUsers |-> r.eventFilters[u]]]]
    IN IF wsIsOpen THEN resubscribeToCollections(r1, fails) ELSE r1


(***************************************************************************)
(* The documents subscriptions.json can hold when the process starts: none *)
(* or one an earlier run of saveSubscriptions wrote.                       *)
(***************************************************************************)
NoFile ==
    [exists |-> FALSE, json |-> TRUE,
     subscriptions |-> EmptyMap, eventFilters |-> EmptyMap]
InitialDocuments ==
    {NoFile,
     [exists |-> TRUE, json |-> TRUE,
      subscriptions |-> [u \in {"u1"} |-> <<SA, SB>>],
      eventFilters |-> [u \in {"u1"} |-> {"item_sold"}]]}

\* the state of the module's variables when the process starts, with one of
\* the given documents in subscriptions.json
Start(documents) ==
    /\ file \in documents
    /\ pc = "start"
    /\ userSubscriptions = EmptyMap
    /\ eventFilters = EmptyMap
    /\ activeCollections = {}
    /\ subscriptionRefs = EmptyMap
    /\ currentRef = 0
    /\ ws = "null"
    /\ isWsConnected = FALSE
    /\ connectionAttempts = 0
    /\ reconnectTimeout = 0
    /\ connectionTimeout = FALSE
    /\ heartbeatInterval = [live |-> 0, current |-> FALSE]
    /\ initialHeartbeat = FALSE
    /\ subscriptionDelay = FALSE
    /\ chains = EmptyBag
    /\ waiting = {}
    /\ handlers = {}
    /\ out = <<>>
    /\ reply = "none"
    /\ notified = [u \in Users |-> 0]
    /\ received = NoData
    /\ delays = <<>>
    /\ joins = [s \in ValidSlugs |-> 0]
    /\ reconciled = FALSE

Init == Start(InitialDocuments)

(***************************************************************************)
(* Connection supervisor                                                   *)
(***************************************************************************)
RECURSIVE Pow2(_)
Pow2(n) == IF n <= 0 THEN 1 ELSE 2 * Pow2(n - 1)

\* the delay without its cap
BackoffUncapped(attempt) == RECONNECT_DELAY * Pow2(attempt - 1)

\* Math.min(RECONNECT_DELAY * Math.pow(2, connectionAttempts - 1), MAX_BACKOFF)
Backoff(attempt) == Min(RECONNECT_DELAY * Pow2(attempt - 1), MAX_BACKOFF)

\* the variable is let go of while the timer it refers to keeps running
ClearedHeartbeatForgets ==
    [live |-> heartbeatInterval.live, current |-> FALSE]

\* clearInterval(heartbeatInterval): stops the timer the variable refers to
ClearedHeartbeat ==
    IF heartbeatInterval.current
    THEN [live |-> heartbeatInterval.live - 1, current |-> FALSE]
    ELSE heartbeatInterval

\* a reconnect() without the ceiling: a timer is armed at every call
reconnectAlways ==
    LET attempt == connectionAttempts + 1 IN
    /\ attempt <= MaxAttempts
    /\ connectionAttempts' = attempt
    /\ reconnectTimeout' = Backoff(attempt)
    /\ delays' =
           IF attempt <= MAX_RECONNECT_ATTEMPTS
           THEN Append(delays, Backoff(attempt)) ELSE delays

\* a reconnect() whose counter starts over once it is past the ceiling
reconnectWrapping ==
    LET attempt == (connectionAttempts + 1) % (MAX_RECONNECT_ATTEMPTS + 1) IN
    /\ connectionAttempts' = attempt
    /\ reconnectTimeout' =
           IF attempt <= MAX_RECONNECT_ATTEMPTS THEN Backoff(attempt) ELSE 0
    /\ delays' = <<>>

\* reconnect(): the earlier backoff timer is cleared, the counter goes up and a
\* new timer is armed only while the counter is within the ceiling
reconnect ==
    LET attempt == connectionAttempts + 1 IN
    /\ attempt <= MaxAttempts
    /\ connectionAttempts' = attempt
    /\ reconnectTimeout' =
           IF attempt <= MAX_RECONNECT_ATTEMPTS THEN Backoff(attempt) ELSE 0
    /\ delays' =
           IF attempt <= MAX_RECONNECT_ATTEMPTS
           THEN Append(delays, Backoff(attempt)) ELSE delays

\* connectToOpenSea() past its "already connected" return: timers cleared, the
\* previous socket stripped of its listeners and terminated, a new socket made
connectToOpenSea ==
    /\ ws' = "connecting"
    /\ reconnectTimeout' = 0
    /\ heartbeatInterval' = ClearedHeartbeat
    /\ connectionTimeout' = TRUE
    /\ waiting' = {[p EXCEPT !.listening = FALSE] : p \in waiting}
    /\ handlers' = {}
    /\ joins' = [s \in ValidSlugs |-> 0]
    /\ reconciled' = FALSE

NoOutput ==
    /\ out' = <<>>
    /\ reply' = "none"
    /\ notified' = [u \in Users |-> 0]
    /\ received' = NoData

\* client.on('ready'): loadSubscriptions(), connectToOpenSea(), rotation armed
Ready ==
    /\ pc = "start"
    /\ pc' = "running"
    /\ LET r == loadSubscriptions(Registry, FALSE) IN
          /\ userSubscriptions' = r.userSubscriptions
          /\ eventFilters' = r.eventFilters
          /\ activeCollections' = r.activeCollections
          /\ subscriptionRefs' = r.subscriptionRefs
    /\ connectToOpenSea
    /\ NoOutput
    /\ UNCHANGED <<currentRef, file, isWsConnected, connectionAttempts,
                   initialHeartbeat, subscriptionDelay, chains, delays>>

\* an 'open' handler that leaves the attempt counter as it is
WsOpenKeepsCount ==
    /\ ws = "connecting"
    /\ ws' = "open"
    /\ connectionTimeout' = FALSE
    /\ isWsConnected' = TRUE
    /\ initialHeartbeat' = TRUE
    /\ heartbeatInterval' = [live |-> heartbeatInterval.live + 1, current |-> TRUE]
    /\ subscriptionDelay' = TRUE
    /\ NoOutput
    /\ UNCHANGED <<pc, regVars, reconnectTimeout, chains, waiting, handlers, joins,
                   reconciled, connectionAttempts, delays>>

\* ws.on('open')
WsOpen ==
    /\ ws = "connecting"
    /\ ws' = "open"
    /\ connectionTimeout' = FALSE
    /\ isWsConnected' = TRUE
    /\ connectionAttempts' = 0
    /\ delays' = <<>>
    /\ initialHeartbeat' = TRUE
    /\ heartbeatInterval' = [live |-> heartbeatInterval.live + 1, current |-> TRUE]
    /\ subscriptionDelay' = TRUE
    /\ NoOutput
    /\ UNCHANGED <<pc, regVars, reconnectTimeout, chains, waiting, handlers, joins, reconciled>>

\* ws.on('error'): a failed handshake, a socket terminated while connecting, or
\* an error on the open socket; the socket is then closing and 'close' follows
WsError ==
    /\ ws \in {"connecting", "aborting", "open"}
    /\ ws' = "closing"
    /\ connectionTimeout' = FALSE
    /\ isWsConnected' = FALSE
    /\ reconnect
    /\ NoOutput
    /\ UNCHANGED <<pc, regVars, heartbeatInterval, initialHeartbeat,
                   subscriptionDelay, chains, waiting, handlers, joins, reconciled>>

\* ws.on('close'): after an error, after ws.close(), or closed by the upstream
WsClose ==
    /\ ws \in {"closing", "open"}
    /\ ws' = "closed"
    /\ connectionTimeout' = FALSE
    /\ isWsConnected' = FALSE
    /\ heartbeatInterval' = ClearedHeartbeat
    /\ reconnect
    /\ NoOutput
    /\ UNCHANGED <<pc, regVars, initialHeartbeat, subscriptionDelay, chains,
                   waiting, handlers, joins, reconciled>>

\* the connectionTimeout callback: the timer is armed only while the socket it
\* was made for is still connecting (open, error and close clear it)
ConnectionTimeout ==
    /\ connectionTimeout
    /\ connectionTimeout' = FALSE
    /\ IF ws # "open"
       THEN ws' = "aborting" /\ reconnect
       ELSE UNCHANGED <<ws, connectionAttempts, reconnectTimeout, delays>>
    /\ NoOutput
    /\ UNCHANGED <<pc, regVars, isWsConnected, heartbeatInterval, initialHeartbeat,
                   subscriptionDelay, chains, waiting, handlers, joins, reconciled>>

\* the backoff timer: connectToOpenSea().  The 1 s and 2 s timers of the last
\* 'open' are older than this timer and shorter (it is at least 5 s), so they
\* have run.
ReconnectTimer ==
    /\ reconnectTimeout > 0
    /\ ~initialHeartbeat /\ ~subscriptionDelay
    /\ IF wsIsOpen
       THEN /\ reconnectTimeout' = 0
            /\ UNCHANGED <<ws, heartbeatInterval, connectionTimeout, waiting, handlers,
                           joins, reconciled>>
       ELSE connectToOpenSea
    /\ NoOutput
    /\ UNCHANGED <<pc, regVars, isWsConnected, connectionAttempts, initialHeartbeat,
                   subscriptionDelay, chains, delays>>

\* the 5 minute setInterval of client.on('ready'): ws.close() on an open socket
Rotation ==
    /\ pc = "running"
    /\ wsIsOpen
    /\ ws' = "closing"
    /\ NoOutput
    /\ UNCHANGED <<pc, regVars, isWsConnected, connectionAttempts, reconnectTimeout,
                   connectionTimeout, heartbeatInterval, initialHeartbeat,
                   subscriptionDelay, chains, waiting, handlers, delays, joins, reconciled>>


(***************************************************************************)
(* Timers of one connection                                                *)
(***************************************************************************)
\* the 1 s setTimeout of ws.on('open'): a failed send is logged, nothing else
InitialHeartbeat(fails) ==
    /\ initialHeartbeat
    /\ initialHeartbeat' = FALSE
    /\ out' = IF SendOutcome(fails) = "sent" THEN <<HeartbeatFrame>> ELSE <<>>
    /\ reply' = "none"
    /\ notified' = [u \in Users |-> 0]
    /\ received' = NoData
    /\ UNCHANGED <<pc, regVars, ws, isWsConnected, connectionAttempts,
                   reconnectTimeout, connectionTimeout, heartbeatInterval,
                   subscriptionDelay, chains, waiting, handlers, delays, joins, reconciled>>

\* one tick of a live setInterval heartbeat timer
Heartbeat(fails) ==
    /\ heartbeatInterval.live > 0
    /\ IF isWsConnected /\ wsIsOpen
       THEN IF SendOutcome(fails) = "sent"
            THEN /\ out' = <<HeartbeatFrame>>
                 /\ UNCHANGED <<connectionAttempts, reconnectTimeout, delays>>
            ELSE /\ out' = <<>>
                 /\ reconnect
       ELSE /\ out' = <<>>
            /\ UNCHANGED <<connectionAttempts, reconnectTimeout, delays>>
    /\ reply' = "none"
    /\ notified' = [u \in Users |-> 0]
    /\ received' = NoData
    /\ UNCHANGED <<pc, regVars, ws, isWsConnected, connectionTimeout,
                   heartbeatInterval, initialHeartbeat, subscriptionDelay, chains,
                   waiting, handlers, joins, reconciled>>

\* the 2 s setTimeout of ws.on('open'): loadSubscriptions() and then
\* resubscribeToCollections()
SubscriptionDelay(fails) ==
    /\ subscriptionDelay
    /\ subscriptionDelay' = FALSE
    /\ reconciled' = TRUE
    /\ LET r == resubscribeToCollections(
                    loadSubscriptions(Registry, fails), fails)
       IN Commit(r)
    /\ reply' = "none"
    /\ notified' = [u \in Users |-> 0]
    /\ received' = NoData
    /\ UNCHANGED <<pc, ws, isWsConnected, connectionAttempts, reconnectTimeout,
                   connectionTimeout, heartbeatInterval, initialHeartbeat, delays>>

\* a 500 ms timer of a join chain: subscribeNext() for the next collection, or
\* the end of the chain
ChainStep(c, fails) ==
    /\ BagIn(c, chains)
    /\ LET rest == chains (-) SetToBag({c})
           r == IF c = <<>>
                THEN [Registry EXCEPT !.chains = rest]
                ELSE [SubscribeNext(Registry, Head(c), fails)
                        EXCEPT !.chains = rest (+) SetToBag({Tail(c)})]
       IN Commit(r)
    /\ reply' = "none"
    /\ notified' = [u \in Users |-> 0]
    /\ received' = NoData
    /\ UNCHANGED <<pc, connVars>>

(***************************************************************************)
(* Commands and interactions                                               *)
(***************************************************************************)
\* an early "return message.reply(...)": nothing but the answer
Reject(code) ==
    /\ reply' = code
    /\ out' = <<>>
    /\ notified' = [u \in Users |-> 0]
    /\ received' = NoData
    /\ UNCHANGED <<pc, regVars, connVars, chains, waiting, handlers, joins>>

Answer(r, code) ==
    /\ Commit(r)
    /\ reply' = code
    /\ notified' = [u \in Users |-> 0]
    /\ received' = NoData
    /\ UNCHANGED <<pc, connVars>>

\* a capacity check that lets a fourth collection in
CapacityReachedLate(subscriptions) == Len(subscriptions) > MAX_SUBSCRIPTIONS

\* subscriptions.length >= 3
CapacityReached(subscriptions) == Len(subscriptions) >= MAX_SUBSCRIPTIONS

\* messageCreate, command "subscribe", up to "await subscriptionPromise"
Subscribe(userId, collectionSlug, userEvents, fails) ==
    /\ pc = "running"
    /\ LET subscriptions == Get(userSubscriptions, userId, <<>>) IN
       IF ~isValidCollectionSlug(collectionSlug) THEN Reject("InvalidSlug")
       ELSE IF CapacityReached(subscriptions) THEN Reject("CapacityExceeded")
       ELSE IF Includes(subscriptions, collectionSlug) THEN Reject("AlreadySubscribed")
       ELSE
         LET ref == currentRef + 1
             r1 == [Registry EXCEPT
                      !.eventFilters = Put(@, userId, userEvents),
                      !.currentRef = ref,
                      !.subscriptionRefs = Put(@, collectionSlug, ref),
                      !.activeCollections = @ \cup {collectionSlug}]
         IN IF wsIsOpen
            THEN IF SendOutcome(fails) = "sent"
                 THEN Answer([Emit(r1, JoinFrame(collectionSlug, ref), fails)
                                EXCEPT !.handlers = @ \cup {ref},
                                       !.waiting = @ \cup
                                  {[user |-> userId, slug |-> collectionSlug,
                                    ref |-> ref,
                                    alias |-> Has(userSubscriptions, userId),
                                    subs |-> <<>>,
                                    before |-> Get(eventFilters, userId, VALID_EVENTS),
                                    listening |-> TRUE]}],
                             "none")
                 ELSE Answer(r1, "Failed")
            ELSE Answer(
                   saveSubscriptions(
                     [r1 EXCEPT !.userSubscriptions =
                         Put(@, userId, Append(subscriptions, collectionSlug))],
                     fails),
                   "SubscribedPending")

\* a 5 s timer that is dropped together with the socket it was armed on
SubscribeTimeoutWhileOpen(p) ==
    /\ wsIsOpen /\ p.listening
    /\ p \in waiting
    /\ waiting' = waiting \ {p}
    /\ reply' = "Failed"
    /\ out' = <<>>
    /\ notified' = [u \in Users |-> 0]
    /\ received' = NoData
    /\ UNCHANGED <<pc, regVars, connVars, chains, joins, handlers>>

\* the 5 s timer of subscriptionPromise: reject, and the catch block answers
SubscribeTimeout(p) ==
    /\ p \in waiting
    /\ waiting' = waiting \ {p}
    /\ reply' = "Failed"
    /\ out' = <<>>
    /\ notified' = [u \in Users |-> 0]
    /\ received' = NoData
    /\ UNCHANGED <<pc, regVars, connVars, chains, joins, handlers>>

\* a check that takes no other subscriber into account
isCollectionStillSubscribedNever(subs, collectionSlug) == FALSE

\* does any user's array still include the slug
isCollectionStillSubscribed(subs, collectionSlug) ==
    \E u \in DOMAIN subs : Includes(subs[u], collectionSlug)

\* messageCreate, command "unsubscribe"
Unsubscribe(userId, collectionSlug, fails) ==
    /\ pc = "running"
    /\ LET subscriptions == Get(userSubscriptions, userId, <<>>) IN
       IF ~isValidCollectionSlug(collectionSlug) THEN Reject("InvalidSlug")
       ELSE IF ~Includes(subscriptions, collectionSlug) THEN Reject("NotSubscribed")
       ELSE
         LET r1 == [Detach(Registry, {userId}) EXCEPT
                      !.userSubscriptions =
                          Put(@, userId, Without(subscriptions, collectionSlug))]
             r2 == IF isCollectionStillSubscribed(r1.userSubscriptions, collectionSlug)
                   THEN r1
                   ELSE LET r1a == [r1 EXCEPT !.activeCollections = @ \ {collectionSlug}]
                        IN IF wsIsOpen /\ Has(r1a.subscriptionRefs, collectionSlug)
                           THEN [Emit(r1a, LeaveFrame(collectionSlug,
                                         r1a.subscriptionRefs[collectionSlug]), FALSE)
                                   EXCEPT !.subscriptionRefs = Del(@, collectionSlug)]
                           ELSE r1a
         IN Answer(saveSubscriptions(r2, fails), "Unsubscribed")

\* interactionCreate, select menu "remove_collection"
RemoveCollection(userId, collectionSlug, fails) ==
    /\ pc = "running"
    /\ LET userSubs == Get(userSubscriptions, userId, <<>>)
           r1 == [Detach(Registry, {userId}) EXCEPT
                    !.userSubscriptions =
                        Put(@, userId, Without(userSubs, collectionSlug))]
       IN Answer(saveSubscriptions(r1, fails), "Removed")

\* interactionCreate, button "clear_confirm"
ClearConfirm(userId, fails) ==
    /\ pc = "running"
    /\ LET r1 == [Detach(Registry, {userId}) EXCEPT
                    !.userSubscriptions = Del(@, userId),
                    !.eventFilters = Del(@, userId)]
       IN Answer(saveSubscriptions(r1, fails), "Cleared")

\* the Set a quick-filter button leaves in eventFilters
QuickFilter(userFilters, subAction) ==
    CASE subAction = "sales" -> {"item_sold"}
      [] subAction = "listings" -> {"item_listed"}
      [] OTHER -> userFilters \cup VALID_EVENTS

\* interactionCreate, buttons "filter_sales", "filter_listings", "filter_all"
FilterButton(userId, subAction, fails) ==
    /\ pc = "running"
    /\ LET userFilters == Get(eventFilters, userId, {})
           r1 == [Registry EXCEPT
                    !.eventFilters = Put(@, userId, QuickFilter(userFilters, subAction))]
       IN Answer(saveSubscriptions(r1, fails), "FilterSet")

\* interactionCreate, select menu "event_filters"
SelectEventFilters(userId, selectedEvents, fails) ==
    /\ pc = "running"
    /\ LET r1 == [Registry EXCEPT !.eventFilters = Put(@, userId, selectedEvents)]
       IN Answer(saveSubscriptions(r1, fails), "FilterSet")

\* interactionCreate, modal "add_collection_modal"
AddCollectionModal(userId, collectionSlug, fails) ==
    /\ pc = "running"
    /\ LET subscriptions == Get(userSubscriptions, userId, <<>>) IN
       IF ~isValidCollectionSlug(collectionSlug) THEN Reject("InvalidSlug")
       ELSE IF CapacityReached(subscriptions) THEN Reject("CapacityExceeded")
       ELSE IF Includes(subscriptions, collectionSlug) THEN Reject("AlreadySubscribed")
       ELSE Answer(
              saveSubscriptions(
                [Registry EXCEPT !.userSubscriptions =
                    Put(@, userId, Append(subscriptions, collectionSlug))],
                fails),
              "Subscribed")


(***************************************************************************)
(* Inbound frames.  What arrives is text; JSON.parse makes the message     *)
(* object of it, and only that object has the fields event, ref, payload.  *)
(***************************************************************************)
Undefined == "undefined"

Message(event, ref, status, hasPayload, slug) ==
    [event |-> event, ref |-> ref, status |-> status,
     hasPayload |-> hasPayload, slug |-> slug]

InboundMessages ==
    {Message("phx_reply", n, st, FALSE, NoSlug) :
        n \in 0..MaxRefs, st \in {"ok", "error"}}
    \cup {Message("phx_close", 0, "", FALSE, NoSlug)}
    \cup {Message(k, 0, "", TRUE, sl) :
        k \in VALID_EVENTS \cup {"item_unknown"}, sl \in {SA, NoSlug}}
    \cup {Message("item_sold", 0, "", FALSE, SA)}

\* the data a 'message' listener is called with: the frame's text, or text
\* that is no JSON (the text of an event frame, cut short)
InboundData ==
    {[text |-> m, json |-> TRUE] : m \in InboundMessages}
    \cup {[text |-> Message("item_sold", 0, "", TRUE, SA), json |-> FALSE]}

JSONparse(data) == data.text

\* obj.name in JavaScript: undefined when the object has no such property
Field(obj, name) == IF name \in DOMAIN obj THEN obj[name] ELSE Undefined

\* a listener handed the parsed message
ListenerArgumentParsed(data) == JSONparse(data)

\* what the listener that subscribe registers with ws.on('message', handler)
\* receives as its parameter "event": the data as it arrived
ListenerArgument(data) == data

\* handler: event.event === 'phx_reply' && event.ref === ref
HandlerMatches(event, ref) ==
    /\ Field(event, "event") = "phx_reply"
    /\ Field(event, "ref") = ref

\* a default that lets no kind through
FiltersOfNone(filters, userId) == Get(filters, userId, {})

\* eventFilters.get(userId) || new Set(VALID_EVENTS)
FiltersOf(filters, userId) == Get(filters, userId, VALID_EVENTS)

\* a router that does not look at the filters
handleOpenSeaEventUnfiltered(event) ==
    IF ~event.hasPayload \/ event.slug = NoSlug
    THEN [u \in Users |-> 0]
    ELSE [u \in Users |->
            IF Has(userSubscriptions, u) /\ Includes(userSubscriptions[u], event.slug)
            THEN 1 ELSE 0]

\* a router that does not check for the collection identity
handleOpenSeaEventUnchecked(event) ==
    [u \in Users |->
        IF /\ Has(userSubscriptions, u)
           /\ Includes(userSubscriptions[u], event.slug)
           /\ event.event \in Get(eventFilters, u, VALID_EVENTS)
        THEN 1 ELSE 0]

\* handleOpenSeaEvent: the users sendNotification is called for, with the
\* number of calls
handleOpenSeaEvent(event) ==
    IF ~event.hasPayload \/ event.slug = NoSlug
    THEN [u \in Users |-> 0]
    ELSE [u \in Users |->
            IF /\ Has(userSubscriptions, u)
               /\ Includes(userSubscriptions[u], event.slug)
               /\ event.event \in FiltersOf(eventFilters, u)
            THEN 1 ELSE 0]

NoNotification == [u \in Users |-> 0]

\* a listener that routes whatever text arrived, decodable or not
OnMessageUndecoded(data) ==
    LET message == JSONparse(data) IN
    IF message.event \in {"phx_reply", "phx_close"} THEN NoNotification
    ELSE handleOpenSeaEvent(message)

\* the listener of connectToOpenSea: ws.on('message', ...)
OnMessage(data) ==
    IF ~data.json THEN NoNotification
    ELSE LET message == JSONparse(data) IN
         IF message.event \in {"phx_reply", "phx_close"} THEN NoNotification
         ELSE handleOpenSeaEvent(message)

\* the code after "await subscriptionPromise" for the waiting command p
Resume(r, p, fails) ==
    LET subscriptions == IF p.alias THEN r.userSubscriptions[p.user] ELSE p.subs
        others == [r EXCEPT !.waiting = @ \ {p}, !.handlers = @ \ {p.ref}]
        r1 == [(IF p.alias THEN others ELSE Detach(others, {p.user})) EXCEPT
                 !.userSubscriptions =
                     Put(@, p.user, Append(subscriptions, p.slug))]
    IN saveSubscriptions(r1, fails)

\* one frame arrives on the open socket: the listener of connectToOpenSea
\* runs, then the handler of every waiting subscribe still registered; a
\* handler that matches resolves its promise and the command goes on
Deliver(data, fails) ==
    /\ wsIsOpen
    /\ notified' = OnMessage(data)
    /\ received' = data
    /\ LET matching == {p \in waiting :
                          p.listening /\ HandlerMatches(ListenerArgument(data), p.ref)}
       IN IF matching = {}
          THEN /\ reply' = "none"
               /\ out' = <<>>
               /\ UNCHANGED <<regVars, chains, waiting, handlers, joins>>
          ELSE /\ reply' = "Subscribed"
               /\ LET r == Resume(Registry, CHOOSE p \in matching : TRUE, fails)
                  IN Commit(r)
    /\ UNCHANGED <<pc, connVars>>

(***************************************************************************)
(* The specification                                                       *)
(***************************************************************************)
\* a step is taken only if it keeps the counters within the limits L of the
\* specification: refs handed out, join chains alive, subscribes waiting
Limits(maxRef, maxChains, maxWaiting) ==
    [ref |-> maxRef, chains |-> maxChains, waiting |-> maxWaiting]
Within(L) ==
    /\ currentRef <= L.ref
    /\ BagCardinality(chains) <= L.chains
    /\ Cardinality(waiting) <= L.waiting

\* a connection is made: connect, open, the 1 s heartbeat
ConnectionSteps(B) ==
    \/ Ready
    \/ WsOpen
    \/ \E fails \in B : InitialHeartbeat(fails)

\* a connection is lost and made again: close and the backoff timer
ReconnectSteps ==
    \/ WsClose
    \/ ReconnectTimer

\* the 2 s timer and the join chains
ReconcileSteps(B, L) ==
    \/ \E fails \in B : SubscriptionDelay(fails) /\ Within(L)'
    \/ \E c \in BagToSet(chains), fails \in B : ChainStep(c, fails) /\ Within(L)'

\* failures, the handshake timer, the rotation and the periodic heartbeat
SupervisorSteps(B) ==
    \/ WsError
    \/ ConnectionTimeout
    \/ Rotation
    \/ \E fails \in B : Heartbeat(fails)

\* the commands that add to a subscription list, for the users U and slugs S
SubscribeSteps(U, S, F, B, L) ==
    \/ \E u \in U, s \in S, ev \in F, fails \in B :
          Subscribe(u, s, ev, fails) /\ Within(L)'
    \/ \E p \in waiting : SubscribeTimeout(p)
    \/ \E u \in U, s \in S, fails \in B : AddCollectionModal(u, s, fails) /\ Within(L)'

\* the commands that take from a subscription list
UnsubscribeSteps(U, S, B, L) ==
    \/ \E u \in U, s \in S, fails \in B : Unsubscribe(u, s, fails) /\ Within(L)'
    \/ \E u \in U, s \in S \cap ValidSlugs, fails \in B :
          RemoveCollection(u, s, fails) /\ Within(L)'
    \/ \E u \in U, fails \in B : ClearConfirm(u, fails) /\ Within(L)'

FilterSteps(U, F, B, L) ==
    \/ \E u \in U, a \in {"sales", "listings", "all"}, fails \in B :
          FilterButton(u, a, fails) /\ Within(L)'
    \/ \E u \in U, ev \in F, fails \in B : SelectEventFilters(u, ev, fails) /\ Within(L)'

DeliverSteps(D, B, L) ==
    \E data \in D, fails \in B : Deliver(data, fails) /\ Within(L)'

\* ws.send() on an OPEN socket returns normally (it throws only while the
\* socket is CONNECTING), so the specifications below take no thrown send
Sends == {FALSE}

Bounded == Limits(MaxRefs, MaxChains, MaxWaiting)
Replies ==
    {d \in InboundData :
        d.json /\ d.text.event = "phx_reply" /\ d.text.ref \in 1..MaxRefs}

\* one subscriber filling a list: the stored list <<a, b>> or none, and the
\* collections c and d
NextCap ==
    \/ ConnectionSteps(Sends)
    \/ ReconnectSteps
    \/ ReconcileSteps(Sends, Bounded)
    \/ SubscribeSteps({"u1"}, {SC, SD}, {VALID_EVENTS}, Sends, Bounded)
    \/ UnsubscribeSteps({"u1"}, {SC}, Sends, Bounded)
    \/ DeliverSteps(Replies, Sends, Bounded)
SpecCap == Init /\ [][NextCap]_vars

\* two subscribers sharing the collection a
NextShare ==
    \/ ConnectionSteps(Sends)
    \/ ReconnectSteps
    \/ ReconcileSteps(Sends, Bounded)
    \/ SubscribeSteps(Users, {SA}, {VALID_EVENTS}, Sends, Bounded)
    \/ UnsubscribeSteps(Users, {SA}, Sends, Bounded)
SpecShare == Init /\ [][NextShare]_vars

\* the connection supervisor with its failures, over the stored registry
NextSupervisor ==
    \/ ConnectionSteps(Sends)
    \/ ReconnectSteps
    \/ ReconcileSteps(Sends, Limits(SupervisorRefs, MaxChains, 0))
    \/ SupervisorSteps(Sends)
SpecSupervisor == Init /\ [][NextSupervisor]_vars

\* the event router: lists made through the modal (no filter stored), filters
\* set through the menu and the buttons, and every inbound frame
RouterData == {d \in InboundData : d.text.ref = 0}
NextRouter ==
    \/ ConnectionSteps(Sends)
    \/ ReconcileSteps(Sends, Bounded)
    \/ \E u \in Users, s \in {SA, SB}, fails \in Sends :
          AddCollectionModal(u, s, fails) /\ Within(Bounded)'
    \/ FilterSteps(Users, FilterInputs, Sends, Bounded)
    \/ DeliverSteps(RouterData, Sends, Bounded)
SpecRouter == Init /\ [][NextRouter]_vars

\* subscribes made before the one connection of the behaviour opens, and the
\* reconciliation on it; the timers of the reconciliation do fire
PendingLimits == Limits(PendingRefs, MaxChains, 0)
NextPending ==
    \/ ConnectionSteps(Sends)
    \/ ReconcileSteps(Sends, PendingLimits)
    \/ \E u \in Users, s \in {SC, SD}, fails \in Sends :
          /\ ~wsIsOpen
          /\ Subscribe(u, s, VALID_EVENTS, fails)
          /\ Within(PendingLimits)'
SpecPending ==
    /\ Init
    /\ [][NextPending]_vars
    /\ WF_vars(ReconcileSteps(Sends, PendingLimits))

\* one subscriber's commands with well-formed and ill-formed slugs
NextValidate ==
    \/ ConnectionSteps(Sends)
    \/ ReconcileSteps(Sends, Bounded)
    \/ SubscribeSteps({"u1"}, {SA, BadSlug}, {VALID_EVENTS}, Sends, Bounded)
    \/ UnsubscribeSteps({"u1"}, {SA, BadSlug}, Sends, Bounded)
SpecValidate == Init /\ [][NextValidate]_vars

\* the supervisor with a transport whose send may throw on the open socket
SendMayThrow == BOOLEAN
NextHeartbeat ==
    \/ ConnectionSteps(SendMayThrow)
    \/ ReconnectSteps
    \/ ReconcileSteps(Sends, Limits(SupervisorRefs, MaxChains, 0))
    \/ SupervisorSteps(SendMayThrow)
SpecHeartbeat == Init /\ [][NextHeartbeat]_vars

\* a subscriber issuing subscribe on a supervised connection: the connection
\* fails, is rotated and is made again while commands wait for their ack; the
\* 5 s timer of every waiting command runs
WaitRefs == 4
WaitLimits == Limits(WaitRefs, MaxChains, MaxWaiting)
TimeoutOf(n) == \E p \in waiting : p.ref = n /\ SubscribeTimeout(p)
NextWait ==
    \/ ConnectionSteps(Sends)
    \/ ReconnectSteps
    \/ ReconcileSteps(Sends, WaitLimits)
    \/ SupervisorSteps(Sends)
    \/ SubscribeSteps({"u1"}, {SC}, {VALID_EVENTS}, Sends, WaitLimits)
    \/ DeliverSteps(Replies, Sends, WaitLimits)
SpecWait ==
    /\ Init /\ [][NextWait]_vars
    /\ \A n \in 1..WaitRefs : WF_vars(TimeoutOf(n))

\* the loader over documents a hand or an earlier version may have left: lists
\* with entries that are no slug, filters with kinds that are none, a file
\* that is no JSON
MaxStored == 2
StoredLists(S) == UNION {[1..n -> S] : n \in 0..MaxStored}
StoredKinds == {"item_sold", "item_minted"}
StoredDocuments ==
    {[exists |-> TRUE, json |-> TRUE,
      subscriptions |-> ("u1" :> l1 @@ "u2" :> l2),
      eventFilters |-> [u \in {"u1"} |-> k]] :
        l1 \in StoredLists({SA, BadSlug}),
        l2 \in StoredLists({SB}) \cup {<<BadSlug>>},
        k \in SUBSET StoredKinds}
    \cup {[exists |-> TRUE, json |-> FALSE,
           subscriptions |-> EmptyMap, eventFilters |-> EmptyMap]}
InitLoad == Start(StoredDocuments)
NextLoad ==
    \/ ConnectionSteps(Sends)
    \/ ReconcileSteps(Sends, PendingLimits)
SpecLoad == InitLoad /\ [][NextLoad]_vars

\* the connection closed by the 5 minute rotation or by the upstream, with
\* every handshake succeeding: no error event and no handshake timeout
NextRotation ==
    \/ ConnectionSteps(Sends)
    \/ ReconnectSteps
    \/ ReconcileSteps(Sends, Limits(PendingRefs, MaxChains, 0))
    \/ Rotation
    \/ \E fails \in Sends : Heartbeat(fails)
SpecRotation == Init /\ [][NextRotation]_vars

\* subscribe, unsubscribe and the join chains on a connection that fails, is
\* rotated and is made again
FrameLimits == Limits(WaitRefs, MaxChains, 1)
NextFrames ==
    \/ ConnectionSteps(Sends)
    \/ ReconnectSteps
    \/ ReconcileSteps(Sends, FrameLimits)
    \/ SupervisorSteps(Sends)
    \/ \E fails \in Sends :
          Subscribe("u1", SC, VALID_EVENTS, fails) /\ Within(FrameLimits)'
    \/ \E p \in waiting : SubscribeTimeout(p)
    \/ \E fails \in Sends : Unsubscribe("u1", SC, fails) /\ Within(FrameLimits)'
SpecFrames == Init /\ [][NextFrames]_vars

\* one subscriber leaving and rejoining the stored collection b while the
\* join chains of the connection run: the two chains the 2 s timer starts
\* and the one a save starts
LeaveChains == 3
ChainLimits == Limits(WaitRefs, LeaveChains, 1)
NextChain ==
    \/ ConnectionSteps(Sends)
    \/ ReconnectSteps
    \/ ReconcileSteps(Sends, ChainLimits)
    \/ \E fails \in Sends :
          Subscribe("u1", SB, VALID_EVENTS, fails) /\ Within(ChainLimits)'
    \/ \E p \in waiting : SubscribeTimeout(p)
    \/ \E fails \in Sends :
          Unsubscribe("u1", SB, fails) /\ Within(ChainLimits)'
SpecChain == Init /\ [][NextChain]_vars

(***************************************************************************)
(* Properties                                                              *)
(***************************************************************************)
ListOf(u) == Get(userSubscriptions, u, <<>>)
AllHeld == UNION {Range(userSubscriptions[u]) : u \in DOMAIN userSubscriptions}
Holders(s) == {u \in DOMAIN userSubscriptions : Includes(userSubscriptions[u], s)}
LeavesFor(frames, s) ==
    {i \in 1..Len(frames) : frames[i].event = "phx_leave" /\ frames[i].slug = s}

C2_AtMostThree ==
    \A u \in DOMAIN userSubscriptions : Len(userSubscriptions[u]) <= 3

\* two subscribe commands of a subscriber holding 2 collections are both
\* suspended, each with its listener on the socket
C2_Witness ==
    /\ Len(ListOf("u1")) = 2
    /\ \E p, q \in waiting :
          /\ p.user = "u1" /\ q.user = "u1"
          /\ p.slug # q.slug
          /\ p.listening /\ q.listening

\* C3: no subscription list contains the same collection twice.
C3_NoDuplicates ==
    \A u \in DOMAIN userSubscriptions : NoDuplicates(userSubscriptions[u])

\* two subscribe commands of one subscriber for the same collection are both
\* suspended
C3_Witness ==
    \E p, q \in waiting :
        /\ p # q
        /\ p.user = q.user /\ p.slug = q.slug
        /\ p.listening /\ q.listening

\* C4: when a subscribe, unsubscribe, menu-remove, modal-add or clear-all has
\* completed (it answered its caller), the active set is the union of all
\* subscription lists.
C4_ActiveIsUnion ==
    reply # "none" => activeCollections = AllHeld

\* C5: an unsubscribe (command or menu) from a collection no other subscriber
\* holds leaves the collection out of the active set and without a recorded
\* ref, connected or not.
C5_UnsubscribeDiscards ==
    [][\A u \in Users, s \in ValidSlugs :
          /\ Holders(s) = {u}
          /\ \/ \E fails \in BOOLEAN : Unsubscribe(u, s, fails)
             \/ \E fails \in BOOLEAN : RemoveCollection(u, s, fails)
          => /\ s \notin activeCollections'
             /\ ~Has(subscriptionRefs', s)]_vars

\* C6: when two subscribers hold a collection and one of them unsubscribes,
\* the collection stays in the active set and no leave frame is sent for it.
C6_SharedStaysActive ==
    [][\A u \in Users, s \in ValidSlugs :
          /\ u \in Holders(s)
          /\ Holders(s) # {u}
          /\ \E fails \in BOOLEAN : Unsubscribe(u, s, fails)
          => /\ s \in activeCollections'
             /\ LeavesFor(out', s) = {}]_vars

\* an unsubscribe command just went through on the open socket while another
\* subscriber holds the collection
C6_Witness ==
    /\ reply = "Unsubscribed"
    /\ wsIsOpen
    /\ Has(subscriptionRefs, SA)
    /\ Holders(SA) # {}

\* C7: once the reconciliation that follows a connect has finished, each
\* active collection has been sent exactly one join frame on that connection.
C7_JoinedOnce ==
    (wsIsOpen /\ reconciled /\ chains = EmptyBag)
        => \A s \in activeCollections : joins[s] = 1

\* C8: within a run of failed reconnects the scheduled delays are
\* min(5 s * 2^(n-1), 30 s) for attempt n in 1..5, hence non-decreasing and
\* at most 30 s.
ExpectedDelays == <<5000, 10000, 20000, 30000, 30000>>
C8_BackoffDelays ==
    /\ Len(delays) <= 5
    /\ \A n \in 1..Len(delays) :
          /\ delays[n] = ExpectedDelays[n]
          /\ delays[n] <= 30000
          /\ n > 1 => delays[n - 1] <= delays[n]

\* five reconnects in a row have been scheduled
C8_Witness ==
    /\ Len(delays) = 5
    /\ connectionAttempts = 5
    /\ reconnectTimeout = 30000

\* C9: once connectionAttempts is beyond the ceiling it stays there, no
\* backoff timer is armed, no socket is made or opened and no step sends a
\* frame.
Exhausted == connectionAttempts > MAX_RECONNECT_ATTEMPTS
C9_ExhaustedIsTerminal ==
    [][Exhausted =>
          /\ Exhausted'
          /\ reconnectTimeout' = 0
          /\ ws' \notin {"connecting", "open"}
          /\ out' = <<>>]_vars

\* the ceiling was passed after five scheduled reconnects and the socket is
\* closed
C9_Witness ==
    /\ Exhausted
    /\ Len(delays) = MAX_RECONNECT_ATTEMPTS
    /\ ws = "closed"

\* C10: a subscriber without a stored filter is notified exactly once of an
\* inbound event of any of the 7 kinds for a collection in the subscriber's
\* list.
C10_DefaultFilterPassesAll ==
    [][\A u \in Users :
          /\ received' \in InboundData
          /\ received'.json
          /\ received'.text.event \in VALID_EVENTS
          /\ received'.text.hasPayload
          /\ ~Has(eventFilters, u)
          /\ Includes(ListOf(u), received'.text.slug)
          => notified'[u] = 1]_vars

\* a subscriber with a list and no stored filter was just notified
C10_Witness ==
    \E u \in Users :
        /\ notified[u] = 1
        /\ ~Has(eventFilters, u)
        /\ ListOf(u) # <<>>

\* what saveSubscriptions writes of a Map: its non-empty entries
NonEmptyLists(m) == [u \in {x \in DOMAIN m : m[x] # <<>>} |-> m[u]]
NonEmptyFilters(m) == [u \in {x \in DOMAIN m : m[x] # {}} |-> m[u]]
PersistedAgrees ==
    /\ file.subscriptions = NonEmptyLists(userSubscriptions)
    /\ file.eventFilters = NonEmptyFilters(eventFilters)
IsPersisted(u, s) ==
    /\ file.exists
    /\ u \in DOMAIN file.subscriptions
    /\ Includes(file.subscriptions[u], s)
MutatingDone ==
    {"Failed", "SubscribedPending", "Subscribed", "Unsubscribed", "Removed",
     "Cleared", "FilterSet"}

\* C11: when a mutating operation has completed (also a subscribe that timed
\* out), the persisted lists and filters equal the ones in memory.
C11_WriteThrough ==
    reply \in MutatingDone => PersistedAgrees

\* the frame just received is a reply with this ref and status
ReplyFor(data, ref, status) ==
    /\ data \in InboundData
    /\ data.json
    /\ data.text.event = "phx_reply"
    /\ data.text.ref = ref
    /\ data.text.status = status

\* C12: when the reply with the ref of a connected subscribe and status ok
\* arrives while the command waits, the command completes: the pair is in the
\* subscriber's list and in the document.
C12_AckCompletes ==
    [][\A p \in waiting :
          p.listening /\ ReplyFor(received', p.ref, "ok")
          => /\ reply' = "Subscribed"
             /\ Includes(Get(userSubscriptions', p.user, <<>>), p.slug)
             /\ IsPersisted(p.user, p.slug)']_vars

\* C13: when the wait of a connected subscribe times out, the pair is in the
\* subscriber's list and in the document all the same.
C13_TimeoutKeepsRecord ==
    [][\A p \in waiting :
          SubscribeTimeout(p)
          => /\ Includes(Get(userSubscriptions', p.user, <<>>), p.slug)
             /\ IsPersisted(p.user, p.slug)']_vars

\* C14: when a reply of status error arrives for the ref of a waiting
\* subscribe, the caller is not given the success answer, and the command can
\* only end with the failure answer.
StillWaiting(p) == \E q \in waiting : q.user = p.user /\ q.ref = p.ref
C16_ClearRecomputes ==
    [][\A u \in Users :
          (\E fails \in BOOLEAN : ClearConfirm(u, fails))
          => /\ ~Has(userSubscriptions', u)
             /\ ~Has(eventFilters', u)
             /\ PersistedAgrees'
             /\ \A s \in Range(ListOf(u)) :
                   Holders(s) = {u}
                   => /\ s \notin activeCollections'
                      /\ wsIsOpen => LeavesFor(out', s) # {}]_vars

\* C15: a subscribe accepted while the socket is not open is answered as
\* recorded, with the pair in the list and in the document at once; and on
\* an open socket a join frame for every held collection is eventually sent.
C15_PendingIsJoined ==
    /\ [][\A u \in Users, s \in ValidSlugs :
             /\ ~wsIsOpen
             /\ Len(ListOf(u)) < 3
             /\ ~Includes(ListOf(u), s)
             /\ \E ev \in FilterInputs, fails \in BOOLEAN : Subscribe(u, s, ev, fails)
             => /\ reply' = "SubscribedPending"
                /\ Includes(Get(userSubscriptions', u, <<>>), s)
                /\ IsPersisted(u, s)']_vars
    /\ \A u \in Users, s \in ValidSlugs :
          (wsIsOpen /\ Includes(ListOf(u), s)) ~> (joins[s] >= 1)

\* the collection c, subscribed to before the socket opened, has been joined
C15_Witness ==
    /\ wsIsOpen
    /\ Includes(ListOf("u1"), SC)
    /\ joins[SC] >= 1

JoinsOrLeaves(frames) ==
    {i \in 1..Len(frames) : frames[i].event \in {"phx_join", "phx_leave"}}

\* C17: setting a subscriber's filter (buttons or select menu) changes only
\* that subscriber's filter and the document: the lists, the active set and
\* the recorded refs are unchanged and no join or leave frame is sent.
C17_FilterTouchesNoTopic ==
    [][\A u \in Users :
          \/ \E a \in {"sales", "listings", "all"}, fails \in BOOLEAN :
                FilterButton(u, a, fails)
          \/ \E ev \in FilterInputs, fails \in BOOLEAN :
                SelectEventFilters(u, ev, fails)
          => /\ UNCHANGED <<userSubscriptions, activeCollections, subscriptionRefs>>
             /\ \A v \in Users \ {u} :
                   Get(eventFilters', v, {}) = Get(eventFilters, v, {})
             /\ JoinsOrLeaves(out') = {}]_vars

\* the step answered with this error and did nothing else
ErrorOnly(code) ==
    /\ reply' = code
    /\ UNCHANGED regVars
    /\ out' = <<>>

\* C18: a subscribe or unsubscribe that fails validation (ill-formed slug,
\* already subscribed, not subscribed) answers with its error in the same
\* step and leaves the registry, the ref counter and the document unchanged
\* and sends no frame.
C18_ValidationChangesNothing ==
    [][\A u \in Users, s \in Slugs :
          /\ (\E ev \in FilterInputs, fails \in BOOLEAN : Subscribe(u, s, ev, fails))
             => /\ s = BadSlug => ErrorOnly("InvalidSlug")
                /\ (s # BadSlug /\ Len(ListOf(u)) < 3 /\ Includes(ListOf(u), s))
                      => ErrorOnly("AlreadySubscribed")
          /\ (\E fails \in BOOLEAN : Unsubscribe(u, s, fails))
             => /\ s = BadSlug => ErrorOnly("InvalidSlug")
                /\ (s # BadSlug /\ ~Includes(ListOf(u), s))
                      => ErrorOnly("NotSubscribed")]_vars

\* a command with an ill-formed slug was just answered while the subscriber
\* holds a collection and the socket is open
C18_Witness ==
    /\ reply = "InvalidSlug"
    /\ wsIsOpen
    /\ Includes(ListOf("u1"), SA)

\* the data is a frame that is neither a reply nor a close: a domain event
IsDomainEvent(data) ==
    /\ data \in InboundData
    /\ data.json
    /\ data.text.event \notin {"phx_reply", "phx_close"}
HasIdentity(data) == data.text.hasPayload /\ data.text.slug # NoSlug
FilterOrAll(u) == IF Has(eventFilters, u) THEN eventFilters[u] ELSE VALID_EVENTS

\* C19: routing one inbound domain event calls the notification sink exactly
\* once for each subscriber whose list contains the event's collection and
\* whose filter (absent = all kinds) contains the event's kind, and for no
\* other subscriber.
C19_RoutedToMatchingOnly ==
    [][IsDomainEvent(received') /\ HasIdentity(received')
          => \A u \in Users :
                notified'[u] =
                    IF /\ Includes(ListOf(u), received'.text.slug)
                       /\ received'.text.event \in FilterOrAll(u)
                    THEN 1 ELSE 0]_vars

\* an event was just routed to one holder of its collection and not to
\* another holder, whose filter leaves the kind out
C19_Witness ==
    /\ IsDomainEvent(received) /\ HasIdentity(received)
    /\ \E u, v \in Users :
          /\ notified[u] = 1 /\ notified[v] = 0
          /\ Includes(ListOf(u), received.text.slug)
          /\ Includes(ListOf(v), received.text.slug)
          /\ Has(eventFilters, v)

\* C20: an inbound event without collection identity (no payload or no
\* collection slug) is dropped: nobody is notified and no registry or
\* connection state changes.
C20_NoIdentityDropped ==
    [][IsDomainEvent(received') /\ ~HasIdentity(received')
          => /\ notified' = [u \in Users |-> 0]
             /\ UNCHANGED <<regVars, connVars, chains, waiting>>
             /\ out' = <<>>
             /\ reply' = "none"]_vars

\* an event of a kind and collection a subscriber would be notified of, but
\* without payload, was just received
C20_Witness ==
    /\ IsDomainEvent(received) /\ ~received.text.hasPayload
    /\ \E u \in Users :
          /\ Includes(ListOf(u), received.text.slug)
          /\ received.text.event \in FilterOrAll(u)

\* the data is a frame the listener keeps from the router: an ack reply, a
\* topic-closed frame, or text that JSON.parse throws on
IsControlOrGarbage(data) ==
    /\ data \in InboundData
    /\ \/ ~data.json
       \/ data.text.event \in {"phx_reply", "phx_close"}

\* C21: ack-reply frames, topic-closed frames and frames that fail decoding
\* never reach the event router: none of them causes a notification, and a
\* frame that fails decoding changes no connection state, arms no reconnect
\* timer and sends nothing.
C21_ControlFramesNotRouted ==
    [][IsControlOrGarbage(received')
          => /\ notified' = NoNotification
             /\ (~received'.json
                    => /\ UNCHANGED connVars
                       /\ UNCHANGED <<regVars, chains, waiting>>
                       /\ out' = <<>>)]_vars

\* text that is no JSON was just received while a subscriber with no filter
\* holds the collection the text names
C21_Witness ==
    /\ received \in InboundData /\ ~received.json
    /\ wsIsOpen
    /\ \E u \in Users :
          /\ Includes(ListOf(u), received.text.slug)
          /\ received.text.event \in FilterOrAll(u)

\* C22: any transport error event or unexpected close event on the current
\* connection clears the connected flag, cancels the heartbeat timer (no
\* heartbeat timer is live afterwards) and invokes reconnection (the attempt
\* counter goes up by one).
C22_ErrorOrCloseTearsDown ==
    [][WsError \/ WsClose
          => /\ ~isWsConnected'
             /\ heartbeatInterval'.live = 0
             /\ connectionAttempts' = connectionAttempts + 1]_vars

\* C23: a failure to send a heartbeat, the initial one or a periodic one, is
\* treated as a connection failure: after the step whose send threw, the
\* connection is no longer considered connected.
C23_HeartbeatFailureDisconnects ==
    [][(wsIsOpen /\ isWsConnected /\ (InitialHeartbeat(TRUE) \/ Heartbeat(TRUE)))
          => ~isWsConnected']_vars

\* a subscribe that was handed ref n waits for its acknowledgement
Pending(n) == \E p \in waiting : p.ref = n
Outcomes == {"Subscribed", "Failed"}

\* C27: every subscribe that starts waiting for a join acknowledgement
\* eventually receives exactly one definitive outcome and is never left
\* unresolved, also when the connection drops or is replaced during the wait:
\* a wait ends only in a step that answers success or failure, that step
\* answers once, a ref never waits a second time, and every wait ends.
C27_WaitResolvesOnce ==
    /\ [][\A n \in 1..WaitRefs :
            /\ (Pending(n) /\ ~Pending(n)') => reply' \in Outcomes
            /\ (~Pending(n) /\ Pending(n)') => (currentRef < n /\ reply' = "none")]_vars
    /\ \A n \in 1..WaitRefs : Pending(n) ~> ~Pending(n)

\* a waiting subscribe was just answered after the connection it was issued
\* on had dropped
C27_Witness ==
    /\ reply = "Failed"
    /\ ws \in {"closing", "closed", "connecting"}
    /\ currentRef >= 1

\* C24: the reconnect attempt counter is set to zero only by a successful
\* transition to connected; no other step (failure, timeout, rotation,
\* subscribe, load) ever decreases it.
C24_CounterResetOnlyByOpen ==
    [][connectionAttempts' < connectionAttempts
          => /\ ws = "connecting" /\ ws' = "open"
             /\ isWsConnected'
             /\ connectionAttempts' = 0]_vars

\* a second connection has just opened with the counter at zero: the refs of
\* the joins made on the connection before it are still stored
C24_Witness ==
    /\ wsIsOpen /\ subscriptionDelay
    /\ connectionAttempts = 0
    /\ Has(subscriptionRefs, SA)

\* refs of join frames that went out on the current connection: the stored ref
\* of every collection joined on it
SentOnConnection ==
    {subscriptionRefs[s] : s \in {t \in DOMAIN subscriptionRefs : joins[t] >= 1}}
StrictlyIncreasing(frames) ==
    \A i, j \in 1..Len(frames) : i < j => frames[i].ref < frames[j].ref

\* C25: every outbound control frame (join, leave, heartbeat) sent on one
\* connection carries a ref strictly greater than the ref of every control
\* frame sent earlier on that connection: the frames of one step go out with
\* increasing refs, each greater than the refs of the joins already sent on
\* the connection (stated for the frames sent after the initial heartbeat).
C25_RefsIncrease ==
    [][(wsIsOpen /\ ~initialHeartbeat)
          => /\ StrictlyIncreasing(out')
             /\ \A i \in 1..Len(out') : \A n \in SentOnConnection :
                    out'[i].ref > n]_vars

\* join chains that still have a collection to join
ChainsInProgress == BagCardinality(chains) - CopiesIn(<<>>, chains)

\* C26: at no time are two reconciliation passes (join chains of
\* resubscribeToCollections) in progress together, whatever triggers them.
C26_OneChainAtATime == ChainsInProgress <= 1

\* the slugs and kinds of the stored document that are well-formed
StoredSlugs(u) == Range(file.subscriptions[u]) \cap ValidSlugs
StoredFilter(u) == file.eventFilters[u] \cap VALID_EVENTS

\* C28: loading the persisted document never aborts the program and keeps
\* exactly the well-formed entries: the start-up load always completes, and
\* after it every slug in memory matches the slug grammar and every filter
\* kind is a recognized one, while every valid slug and valid kind of the
\* document is in memory; a document that is no JSON leaves the registry
\* empty.
C28_LoadKeepsWellFormed ==
    /\ pc = "start" => ENABLED Ready
    /\ pc = "running" =>
          /\ \A u \in DOMAIN userSubscriptions :
                Range(userSubscriptions[u]) \subseteq ValidSlugs
          /\ activeCollections \subseteq ValidSlugs
          /\ \A u \in DOMAIN eventFilters : eventFilters[u] \subseteq VALID_EVENTS
          /\ file.json =>
                /\ \A u \in DOMAIN file.subscriptions : \A s \in StoredSlugs(u) :
                      Includes(ListOf(u), s) /\ s \in activeCollections
                /\ \A u \in DOMAIN file.eventFilters : \A k \in StoredFilter(u) :
                      Has(eventFilters, u) /\ k \in eventFilters[u]
          /\ ~file.json => userSubscriptions = EmptyMap /\ eventFilters = EmptyMap

\* a document with a slug and a non-slug in one list, and a recognized and an
\* unrecognized kind in one filter, has been loaded
C28_Witness ==
    /\ pc = "running"
    /\ file.exists /\ file.json
    /\ Range(file.subscriptions["u1"]) = {SA, BadSlug}
    /\ file.eventFilters["u1"] = StoredKinds
    /\ ListOf("u1") = <<SA>>
    /\ Has(eventFilters, "u1")

\* C29: in every reachable state at most one periodic heartbeat timer is
\* live, and it belongs to the current connection: it is the timer the
\* variable heartbeatInterval refers to, armed by the socket that is the
\* current one, and while a new socket is connecting no timer is live.
C29_OneHeartbeatTimer ==
    /\ heartbeatInterval.live <= 1
    /\ heartbeatInterval.live = 1 =>
          heartbeatInterval.current /\ ws \in {"open", "closing"}

\* a second connection has armed its heartbeat timer: the refs of the joins
\* made on the connection before it are still stored
C29_Witness ==
    /\ heartbeatInterval.live = 1
    /\ wsIsOpen /\ initialHeartbeat
    /\ Has(subscriptionRefs, SB)

\* C30: once a new connection is established, no outbound frame sent on it
\* (in particular no leave frame from unsubscribe) carries a ref that was
\* assigned during a previous connection or while disconnected.  On the open
\* socket a ref is assigned to a collection only together with a join frame
\* for it, so a leave frame may go out only for a collection that was joined
\* on the current connection.
C30_NoStaleRef ==
    [][wsIsOpen
          => \A i \in 1..Len(out') :
                out'[i].event = "phx_leave" => joins[out'[i].slug] >= 1]_vars

\* the frame just received is the upstream's error reply to the join that
\* went out for collection s on the current connection
JoinRejected(s) ==
    /\ wsIsOpen
    /\ received \in InboundData /\ received.json
    /\ received.text.event = "phx_reply" /\ received.text.status = "error"
    /\ Has(subscriptionRefs, s) /\ subscriptionRefs[s] = received.text.ref
    /\ joins[s] >= 1
JoinsFor(frames, s) ==
    {i \in 1..Len(frames) : frames[i].event = "phx_join" /\ frames[i].slug = s}

\* C31: after the upstream rejects a collection's join with an error reply,
\* no further join frame for that collection is sent on the same connection
\* (stated for the step that follows the rejection).
C31_NoRejoinAfterReject ==
    [][\A s \in ValidSlugs : JoinRejected(s) => JoinsFor(out', s) = {}]_vars

\* C32: when a subscribe's acknowledgement wait ends, by matching reply or by
\* the 5 s timeout, its temporary message listener is no longer registered on
\* the connection: every registered handler belongs to a subscribe that is
\* still waiting, so the handlers never outnumber the waiting subscribes.
C32_NoListenerLeft ==
    /\ handlers \subseteq {p.ref : p \in waiting}
    /\ Cardinality(handlers) <= Cardinality(waiting)

C34_RotationNeverExhausts ==
    /\ [][(ws = "closing" /\ ws' = "closed")
            => /\ connectionAttempts' = connectionAttempts + 1
               /\ reconnectTimeout' = Backoff(connectionAttempts')]_vars
    /\ [][(ws = "connecting" /\ ws' = "open") => connectionAttempts' = 0]_vars
    /\ [](connectionAttempts <= 1 /\ ~Exhausted)

\* the connection made after a rotation has just opened: refs of the
\* connection before it have been handed out and the counter is zero
C34_Witness ==
    /\ wsIsOpen /\ initialHeartbeat /\ subscriptionDelay
    /\ connectionAttempts = 0
    /\ currentRef >= 1

\* the failure of the current socket has been reported and counted: the
\* handshake timer has terminated it, or its 'error' event has been handled
FailureCounted ==
    /\ ~isWsConnected
    /\ ws \in {"aborting", "closing"}

\* C35: one failed connection attempt increments the attempt counter by
\* exactly one, however the transport reports it: the events that follow the
\* first report of a failure (the 'close' after an 'error', the 'error' and
\* 'close' after a handshake timeout) do not count it again.
C35_OneFailureCountsOnce ==
    [][(FailureCounted /\ ws' \in {"closing", "closed"})
          => connectionAttempts' = connectionAttempts]_vars

\* the in-memory lists hold valid slugs and the filters recognized kinds
WellFormedRegistry ==
    /\ \A u \in DOMAIN userSubscriptions :
          \A i \in 1..Len(userSubscriptions[u]) :
             isValidCollectionSlug(userSubscriptions[u][i])
    /\ \A u \in DOMAIN eventFilters : eventFilters[u] \subseteq VALID_EVENTS
RoundTrip == loadSubscriptions(saveSubscriptions(Registry, FALSE), FALSE)

\* C36: saving and then loading is a round trip for desired state: for any
\* in-memory state whose lists hold valid slugs and whose filters hold
\* recognized kinds, load after save restores the same non-empty lists in
\* the same order and the same filters, and sets the active set to the union
\* of those lists.
C36_SaveLoadRoundTrip ==
    WellFormedRegistry =>
       /\ RoundTrip.userSubscriptions = NonEmptyLists(userSubscriptions)
       /\ RoundTrip.eventFilters = NonEmptyFilters(eventFilters)
       /\ RoundTrip.activeCollections =
             UNION {Range(userSubscriptions[u]) : u \in DOMAIN userSubscriptions}

\* a registry with a list, an emptied list and a filter, whose active set
\* holds a collection nobody has in a list
C36_Witness ==
    /\ WellFormedRegistry
    /\ \E u, v \in DOMAIN userSubscriptions :
          userSubscriptions[u] # <<>> /\ userSubscriptions[v] = <<>>
    /\ eventFilters # EmptyMap
    /\ activeCollections # AllHeld

\* no subscribe is suspended and no join chain has a timer armed
Quiescent == waiting = {} /\ chains = EmptyBag

\* C37: whenever no operation and no reconciliation chain is in progress,
\* every collection that has a recorded topic ref is in the active set, and
\* no topic ref is recorded for a collection that has no subscriber.
C37_RefsOnlyForActive ==
    Quiescent =>
       \A s \in DOMAIN subscriptionRefs :
          s \in activeCollections /\ Holders(s) # {}

\* C38: a subscribe command that does not end with the pair added to the
\* subscriber's list leaves that subscriber's previously stored event filter
\* unchanged: when a wait ends in the failure answer, the kinds the subscriber
\* is notified of are those in force when the command was issued.
C38_FailedSubscribeKeepsFilter ==
    [][\A p \in waiting :
          (~StillWaiting(p)' /\ reply' = "Failed")
             => Get(eventFilters', p.user, VALID_EVENTS) = p.before]_vars

\* C39: if one subscriber issues two subscribe commands for two different
\* collections whose acknowledgement waits overlap, and both are
\* acknowledged, then afterwards the subscriber's list contains both
\* collections (stated for acknowledgements that arrive one after the other:
\* the ok reply for p was the frame before, the ok reply for q is this one).
C39_BothAcknowledgedBothListed ==
    [][\A p, q \in waiting :
          (/\ p.user = q.user /\ p.slug # q.slug
           /\ wsIsOpen /\ p.listening /\ q.listening
           /\ ReplyFor(received, p.ref, "ok")
           /\ ReplyFor(received', q.ref, "ok"))
             => /\ Includes(ListOf(p.user)', p.slug)
                /\ Includes(ListOf(p.user)', q.slug)
                /\ IsPersisted(p.user, p.slug)'
                /\ IsPersisted(p.user, q.slug)']_vars

\* C40: once a collection's last subscriber has unsubscribed, no join frame
\* for that collection is sent until someone subscribes to it again, even if
\* a reconciliation chain was in progress at the time of the unsubscribe: a
\* step that sends a join frame for a collection leaves that collection
\* among the active ones.
C40_NoJoinForInactive ==
    [][\A s \in Slugs :
          JoinsFor(out', s) # {} => s \in activeCollections']_vars

====
